---- MODULE Spec2Model ----
(***************************************************************************)
(* Model of the audio capture and upload pipeline of the VoiceCircle       *)
(* component (src/ai-counselling/src/app/components/VoiceCircle.tsx,       *)
(* lines 17-118).  JavaScript runs every handler to completion, so each    *)
(* action below is one synchronous stretch of code: a call of start() up   *)
(* to its await, the continuation of start() after getUserMedia settles,   *)
(* a call of stop(), one MediaRecorder event handler, and the continuation *)
(* of sendLoop after an awaited fetch() or res.text() settles.             *)
(*                                                                         *)
(* The second part models the ingestion endpoint POST /api/audio in its    *)
(* three revisions (app/api/audio/route.ts, unnamed/part_002 and the       *)
(* handler in app/record/page.tsx) with the bucket and the audio_frames    *)
(* collection: one action for the handler up to its first write, one for   *)
(* the settling of s3.send() and one for the settling of insertAudioMeta().*)
(* Spec and LiveSpec run the component with the endpoint idle;             *)
(* EndpointSpec runs the endpoint with the component idle.                 *)
(***************************************************************************)
EXTENDS Integers, Sequences, FiniteSets, Bags, TLC

\* ---- bounds -------------------------------------------------------------
\* number of getUserMedia() requests issued over the life of the component
MaxStarts == 2
\* number of non-empty segments the recorders emit
MaxEmit == 3

\* number of requests the ingestion endpoint receives
MaxReqs == 2

Ids == 1..MaxStarts

\* the empty pending slot (pendingRef.current = null)
NoFrame == [id |-> 0, seq |-> 0, rec |-> 0]

\* the latest handler is none of those lastOp records
NoCall == "none"

VARIABLES
    isListening,   \* useState(false), line 22
    streamRef,     \* streamRef.current: 0 is null, else a stream id
    recorderRef,   \* recorderRef.current: 0 is null, else a recorder id
    seqRef,        \* seqRef.current
    sendingRef,    \* sendingRef.current # null
    pendingRef,    \* pendingRef.current: NoFrame or a PendingFrame
    awaiting,      \* number of start() calls suspended at await getUserMedia
    acquired,      \* number of getUserMedia() requests issued so far
    liveStreams,   \* streams whose tracks have not been stopped
    recState,      \* MediaRecorder.state per recorder: "none" before it is
                   \* constructed, then "inactive" or "recording"
    started,       \* recording recorders whose start event has been dispatched
    tasks,         \* MediaRecorder events queued by start()/stop(), FIFO
    flights,       \* sendLoop instances suspended at an await: [frame, pc]
    emitted,       \* history: the frames offered to the slot, in order
    sent,          \* history: ids of the frames handed to fetch(), in order
    halted,        \* history: stop() was called while Listening, no start() since
    lastOp,        \* history: the latest handler, when it was a call of start() or
                   \* stop() that found isListening true, or the end of a failed
                   \* upload that found a frame pending, or the loss of the
                   \* capture source; NoCall otherwise
    variant,       \* the revision of the endpoint handler that is deployed
    reqs,          \* the requests the endpoint has received, each with the
                   \* locals of its handler, its position and its response
    s3,            \* the bucket: objects [key, body, contentType], one per key
    mongo,         \* the audio_frames collection, in insertion order
    uploader       \* the hook useAudioChunkUploader and the service it posts to:
                   \*   supported  the formats MediaRecorder.isTypeSupported() accepts
                   \*   mime       the mimeType picked at the latest start()
                   \*   streamRef  streamRef.current: 0 is null, else a stream id
                   \*   mrRef      mrRef.current: 0 is null, else a recorder id
                   \*   frameCounterRef  frameCounterRef.current
                   \*   awaiting   calls of start() suspended at getUserMedia
                   \*   acquired   getUserMedia() requests issued so far
                   \*   recState   state per recorder: "none", "recording",
                   \*              "stopping" (stop() called, last dataavailable
                   \*              to come) or "inactive"
                   \*   uploads    the frame ids of the uploadChunk calls
                   \*              suspended at fetch(), as a bag
                   \*   lastId     history: the last frame id taken in this
                   \*              recording session, 0 when none was (a session
                   \*              starts with a start() that finds no recorder
                   \*              of the hook active)
                   \*   emitted    history: number of non-empty chunks handled
                   \*   lastReq    history: the latest request /api/uploadAudio
                   \*              handled

\* The ingestion endpoint POST /api/audio.  The sources hold three revisions of
\* its handler, which differ in their checks and in their responses:
\*   "route"    src/ai-counselling/src/app/api/audio/route.ts
\*   "part002"  src/unnamed/part_002 (headed src/app/api/audio/route.ts)
\*   "record"   src/ai-counselling/src/app/record/page.tsx, lines 12-87

epVars == <<variant, reqs, s3, mongo>>

\* The hook useAudioChunkUploader (src/ai-counselling/src/hooks/
\* useAudioChunkUploader.tsx) and the handler of /api/uploadAudio it posts to
\* (src/ai-counselling/src/app/api/uploadVideo/route.ts, lines 16-48).
hookVars == <<uploader>>

ctrl == <<isListening, streamRef, recorderRef, seqRef, sendingRef, pendingRef,
          awaiting, acquired, liveStreams, recState, started, tasks, flights>>
hist == <<emitted, sent, halted>>
\* the variables of the component, and all variables
cvars == <<ctrl, hist, lastOp>>
vars == <<cvars, epVars, hookVars>>

\* no mimeType picked yet
NoMime == <<"none">>

\* no request handled yet
NoReq == [status |-> 0, session |-> "", owner |-> "", wrote |-> FALSE]

\* the hook as it is after its first render
HookIdle ==
    [supported |-> {}, mime |-> NoMime, streamRef |-> 0, mrRef |-> 0,
     frameCounterRef |-> 0, awaiting |-> 0, acquired |-> 0,
     recState |-> [r \in Ids |-> "none"], uploads |-> EmptyBag,
     lastId |-> 0, emitted |-> 0, lastReq |-> NoReq]

\* no request has reached the endpoint
EpIdle ==
    /\ reqs = <<>>
    /\ s3 = {}
    /\ mongo = <<>>

Init ==
    /\ variant = "route"
    /\ EpIdle
    /\ uploader = HookIdle
    /\ isListening = FALSE
    /\ streamRef = 0
    /\ recorderRef = 0
    /\ seqRef = 0
    /\ sendingRef = FALSE
    /\ pendingRef = NoFrame
    /\ awaiting = 0
    /\ acquired = 0
    /\ liveStreams = {}
    /\ recState = [r \in Ids |-> "none"]
    /\ started = {}
    /\ tasks = <<>>
    /\ flights = <<>>
    /\ emitted = <<>>
    /\ sent = <<>>
    /\ halted = FALSE
    /\ lastOp = NoCall

RemoveAt(s, i) == [k \in 1..(Len(s) - 1) |-> IF k < i THEN s[k] ELSE s[k + 1]]

\* ---- start(), lines 31-72 ------------------------------------------------
\* line 32: the re-entrancy guard of start()
\* variant: the guard is missing
startGuard_none == TRUE
startGuard == recorderRef = 0

\* start() up to the await of getUserMedia (lines 31-40)
start ==
    /\ UNCHANGED <<epVars, hookVars>>
    /\ lastOp' = IF isListening THEN "start" ELSE NoCall
    /\ IF startGuard
       THEN /\ acquired < MaxStarts
            /\ acquired' = acquired + 1
            /\ awaiting' = awaiting + 1
            /\ halted' = FALSE
            /\ UNCHANGED <<isListening, streamRef, recorderRef, seqRef, sendingRef,
                           pendingRef, liveStreams, recState, started, tasks, flights,
                           emitted, sent>>
       ELSE /\ halted' = FALSE
            /\ UNCHANGED <<ctrl, emitted, sent>>

\* the continuation of start() once getUserMedia has settled (lines 41-71).
\* outcome: "reject"  getUserMedia rejected (permission denied, no device)
\*          "ctor"    new MediaRecorder(...) threw (line 47)
\*          "mrstart" mr.start(3000) threw (line 66)
\*          "ok"      the recorder is recording
startResume(outcome) ==
    /\ UNCHANGED <<epVars, hookVars>>
    /\ awaiting > 0
    /\ awaiting' = awaiting - 1
    /\ lastOp' = NoCall
    /\ LET id == acquired - awaiting + 1   \* the stream this request resolves to
       IN  CASE outcome = "reject" ->
                  UNCHANGED <<isListening, streamRef, recorderRef, liveStreams,
                              recState, tasks>>
             [] outcome = "ctor" ->
                  /\ streamRef' = id
                  /\ liveStreams' = liveStreams \cup {id}
                  /\ UNCHANGED <<isListening, recorderRef, recState, tasks>>
             [] outcome = "mrstart" ->
                  /\ streamRef' = id
                  /\ liveStreams' = liveStreams \cup {id}
                  /\ recorderRef' = id
                  /\ recState' = [recState EXCEPT ![id] = "inactive"]
                  /\ UNCHANGED <<isListening, tasks>>
             [] outcome = "ok" ->
                  /\ streamRef' = id
                  /\ liveStreams' = liveStreams \cup {id}
                  /\ recorderRef' = id
                  /\ recState' = [recState EXCEPT ![id] = "recording"]
                  /\ tasks' = Append(tasks, <<"start", id>>)
                  /\ isListening' = TRUE
    /\ UNCHANGED <<seqRef, sendingRef, pendingRef, acquired, started, flights, hist>>

\* ---- stop(), lines 74-84 -------------------------------------------------
\* variant: stop() also drops the pending frame
stop_abandon ==
    /\ UNCHANGED <<epVars, hookVars>>
    /\ lastOp' = IF isListening THEN "stop" ELSE NoCall
    /\ isListening' = FALSE
    /\ IF recorderRef # 0 /\ recState[recorderRef] = "recording"
       THEN /\ recState' = [recState EXCEPT ![recorderRef] = "inactive"]
            /\ tasks' = Append(tasks, <<"flush", recorderRef>>)
       ELSE UNCHANGED <<recState, tasks>>
    /\ recorderRef' = 0
    /\ liveStreams' = IF streamRef # 0 THEN liveStreams \ {streamRef} ELSE liveStreams
    /\ streamRef' = 0
    /\ pendingRef' = NoFrame
    /\ started' = started \ {recorderRef}
    /\ halted' = (isListening \/ halted)
    /\ UNCHANGED <<seqRef, sendingRef, awaiting, acquired,
                   flights, emitted, sent>>

stop ==
    /\ UNCHANGED <<epVars, hookVars>>
    /\ lastOp' = IF isListening THEN "stop" ELSE NoCall
    /\ isListening' = FALSE
    /\ IF recorderRef # 0 /\ recState[recorderRef] = "recording"
       THEN /\ recState' = [recState EXCEPT ![recorderRef] = "inactive"]
            /\ tasks' = Append(tasks, <<"flush", recorderRef>>)
       ELSE UNCHANGED <<recState, tasks>>
    /\ recorderRef' = 0
    /\ liveStreams' = IF streamRef # 0 THEN liveStreams \ {streamRef} ELSE liveStreams
    /\ streamRef' = 0
    /\ started' = started \ {recorderRef}
    /\ halted' = (isListening \/ halted)
    /\ UNCHANGED <<seqRef, sendingRef, pendingRef, awaiting, acquired,
                   flights, emitted, sent>>

\* ---- onClick, lines 113-116 ----------------------------------------------
onClick == IF ~isListening THEN start ELSE stop

\* ---- the pending slot and sendLoop, lines 49-59 and 86-111 ----------------
\* line 51: the assignment to the slot replaces whatever is pending
\* variant: a frame already pending is kept
offer_keepOld(slot, frame) == IF slot = NoFrame THEN frame ELSE slot
offer(slot, frame) == frame

\* line 56: ondataavailable starts a loop only when none is recorded as running
\* variant: a loop is started on every frame
loopIdle_always == TRUE
loopIdle == ~sendingRef

\* lines 89-100: one iteration of the loop body that finds a frame: the slot is
\* emptied and the frame is handed to fetch(); the loop suspends at the await
sendFrame(fl, frame) == Append(fl, [frame |-> frame, pc |-> "fetch"])

\* line 91: taking the frame empties the slot
takeSlot == NoFrame

\* lines 101-103: a failed upload is only logged; the slot the loop checks next
\* is the slot as the recorder left it
\* variant: the failed frame is put back when nothing newer is pending
onFailure_requeue(slot, frame) == IF slot = NoFrame THEN frame ELSE slot
onFailure(slot, frame) == slot

\* line 107: after the guard is released, a frame that is pending restarts the loop
\* variant: the finally block only releases the guard
restartNeeded_never(slot) == FALSE
restartNeeded(slot) == slot # NoFrame

upl == <<seqRef, sendingRef, pendingRef, flights, emitted, sent>>

\* mr.ondataavailable (lines 49-59) for recorder r; a blob of size 0 is ignored.
\* When no loop is running, sendLoop() runs synchronously up to its first await.
ondataavailable(r, hasData) ==
    IF ~hasData
    THEN UNCHANGED upl
    ELSE /\ Len(emitted) < MaxEmit
         /\ LET frame == [id |-> Len(emitted) + 1, seq |-> seqRef, rec |-> r]
                slot == offer(pendingRef, frame)
            IN  /\ emitted' = Append(emitted, [rec |-> r, seq |-> seqRef])
                /\ seqRef' = seqRef + 1
                /\ IF loopIdle
                   THEN /\ flights' = sendFrame(flights, slot)
                        /\ sent' = Append(sent, slot.id)
                        /\ pendingRef' = takeSlot
                        /\ sendingRef' = TRUE
                   ELSE /\ pendingRef' = slot
                        /\ UNCHANGED <<flights, sent, sendingRef>>

\* a timeslice of 3000 ms has elapsed on a recorder that is recording (line 66)
timeslice(r, hasData) ==
    /\ UNCHANGED <<epVars, hookVars>>
    /\ recState[r] = "recording"
    /\ r \in started
    /\ lastOp' = NoCall
    /\ ondataavailable(r, hasData)
    /\ UNCHANGED <<isListening, streamRef, recorderRef, awaiting, acquired,
                   liveStreams, recState, started, tasks, halted>>

\* the event at the head of the recorder event queue is dispatched:
\*   "start"  mr.onstart (lines 61-63) resets the sequence counter
\*   "flush"  the dataavailable event MediaRecorder.stop() fires with the data
\*            gathered since the last timeslice (line 77), then the stop event
recorderEvent(hasData) ==
    /\ UNCHANGED <<epVars, hookVars>>
    /\ tasks # <<>>
    /\ tasks' = Tail(tasks)
    /\ LET ev == Head(tasks)
       IN  IF ev[1] = "start"
           THEN /\ hasData
                /\ seqRef' = 0
                /\ started' = IF recState[ev[2]] = "recording"
                              THEN started \cup {ev[2]} ELSE started
                /\ lastOp' = NoCall
                /\ UNCHANGED <<sendingRef, pendingRef, flights, emitted, sent>>
           ELSE /\ lastOp' = NoCall
                /\ ondataavailable(ev[2], hasData)
                /\ UNCHANGED started
    /\ UNCHANGED <<isListening, streamRef, recorderRef, awaiting, acquired,
                   liveStreams, recState, halted>>

\* The capture source of the controller's recorder ends without a call of
\* stop(): the device is disconnected or the recorder fails.  The tracks of the
\* stream end, the recorder becomes inactive and fires a last dataavailable
\* event.  Lines 47-67 register ondataavailable and onstart only: no onerror or
\* onstop handler on the recorder and no ended listener on the tracks, so no
\* code of the component runs except the handler of that last event.
captureLost ==
    /\ UNCHANGED <<epVars, hookVars>>
    /\ isListening
    /\ recorderRef # 0
    /\ recState[recorderRef] = "recording"
    /\ recState' = [recState EXCEPT ![recorderRef] = "inactive"]
    /\ liveStreams' = liveStreams \ {recorderRef}
    /\ started' = started \ {recorderRef}
    /\ tasks' = Append(tasks, <<"flush", recorderRef>>)
    /\ lastOp' = "lost"
    /\ UNCHANGED <<isListening, streamRef, recorderRef, seqRef, sendingRef,
                   pendingRef, awaiting, acquired, flights, hist>>

\* lines 88-92 and 105-109: the loop comes round after an await settled without
\* throwing and reads the slot.  An empty slot ends the loop and the finally
\* block releases the guard; otherwise the pending frame is taken and sent.
\* variant: the loop ends after one upload without reading the slot again
loopNext_blind(i, slot) ==
    /\ flights' = RemoveAt(flights, i)
    /\ sendingRef' = FALSE
    /\ UNCHANGED <<pendingRef, sent>>

loopNext(i, slot) ==
    IF slot = NoFrame
    THEN /\ flights' = RemoveAt(flights, i)
         /\ sendingRef' = FALSE
         /\ UNCHANGED <<pendingRef, sent>>
    ELSE /\ flights' = [flights EXCEPT ![i] = [frame |-> slot, pc |-> "fetch"]]
         /\ sent' = Append(sent, slot.id)
         /\ pendingRef' = takeSlot
         /\ UNCHANGED sendingRef

\* lines 105-110: fetch() threw; the finally block releases the guard and, if a
\* frame is pending, starts a new loop, which runs up to its first await
\* variant: the guard is not released when no frame is pending
loopThrow_stuck(i, slot) ==
    IF restartNeeded(slot)
    THEN /\ flights' = sendFrame(RemoveAt(flights, i), slot)
         /\ sent' = Append(sent, slot.id)
         /\ pendingRef' = takeSlot
         /\ sendingRef' = TRUE
    ELSE /\ flights' = RemoveAt(flights, i)
         /\ pendingRef' = slot
         /\ UNCHANGED <<sendingRef, sent>>
loopThrow(i, slot) ==
    IF restartNeeded(slot)
    THEN /\ flights' = sendFrame(RemoveAt(flights, i), slot)
         /\ sent' = Append(sent, slot.id)
         /\ pendingRef' = takeSlot
         /\ sendingRef' = TRUE
    ELSE /\ flights' = RemoveAt(flights, i)
         /\ sendingRef' = FALSE
         /\ pendingRef' = slot
         /\ UNCHANGED sent

Outcomes == {"ok", "notok", "throw"}

\* line 100: the awaited fetch() of loop i settles
fetchDone(i, outcome) ==
    /\ UNCHANGED <<epVars, hookVars>>
    /\ i \in 1..Len(flights)
    /\ flights[i].pc = "fetch"
    /\ CASE outcome = "ok" ->
              /\ loopNext(i, pendingRef)
              /\ lastOp' = NoCall
         [] outcome = "notok" ->
              /\ flights' = [flights EXCEPT ![i].pc = "text"]
              /\ lastOp' = NoCall
              /\ UNCHANGED <<sendingRef, pendingRef, sent>>
         [] outcome = "throw" ->
              /\ loopThrow(i, onFailure(pendingRef, flights[i].frame))
              /\ lastOp' = IF pendingRef # NoFrame THEN "failed" ELSE NoCall
    /\ UNCHANGED <<isListening, streamRef, recorderRef, seqRef, awaiting, acquired,
                   liveStreams, recState, started, tasks, emitted, halted>>

\* line 102: the awaited res.text() of a non-success response settles
textDone(i) ==
    /\ UNCHANGED <<epVars, hookVars>>
    /\ i \in 1..Len(flights)
    /\ flights[i].pc = "text"
    /\ loopNext(i, onFailure(pendingRef, flights[i].frame))
    /\ lastOp' = IF pendingRef # NoFrame THEN "failed" ELSE NoCall
    /\ UNCHANGED <<isListening, streamRef, recorderRef, seqRef, awaiting, acquired,
                   liveStreams, recState, started, tasks, emitted, halted>>

StartOutcomes == {"reject", "ctor", "mrstart", "ok"}

Next ==
    \/ onClick
    \/ start
    \/ stop
    \/ \E o \in StartOutcomes : startResume(o)
    \/ \E r \in Ids, d \in BOOLEAN : timeslice(r, d)
    \/ \E d \in BOOLEAN : recorderEvent(d)
    \/ captureLost
    \/ \E i \in 1..Len(flights), o \in Outcomes : fetchDone(i, o)
    \/ \E i \in 1..Len(flights) : textDone(i)

Spec == Init /\ [][Next]_vars

\* every upload request eventually completes, and so does reading its response
LiveSpec ==
    /\ Spec
    /\ WF_vars(\E i \in 1..Len(flights), o \in Outcomes : fetchDone(i, o))
    /\ WF_vars(\E i \in 1..Len(flights) : textDone(i))

TypeOK ==
    /\ isListening \in BOOLEAN
    /\ streamRef \in 0..MaxStarts
    /\ recorderRef \in 0..MaxStarts
    /\ seqRef \in 0..MaxEmit
    /\ Len(flights) <= MaxEmit
\* ---- the ingestion endpoint: the inputs of a request ------------------------
Variants == {"route", "part002", "record"}

\* form.get() of a field the form does not hold, and auth() without a session
Absent == "(absent)"

\* 5 * 1024 * 1024
MaxBytes == 5242880

\* File.type as a sequence of tokens: <<>> is the empty string, else the media
\* type followed by its parameters.  Blob.type is ASCII lower case already.
Types == {<<>>, <<"audio/webm">>, <<"audio/mp4">>,
          <<"audio/webm", ";codecs=opus">>, <<"audio/ogg">>}

\* the bytes of the file: what they are and how many
Payloads == {[content |-> "a", len |-> 12288], [content |-> "b", len |-> 12288],
             [content |-> "a", len |-> MaxBytes],
             [content |-> "a", len |-> MaxBytes + 1]}

FrameStrs == {Absent, "abc", "7"}
TsStrs == {Absent, "abc", "1000"}

\* a request as the client builds it most of the time
BaseRequest ==
    [userId |-> "u1", file |-> TRUE, type |-> <<"audio/webm">>,
     payload |-> [content |-> "a", len |-> 12288],
     frameNumber |-> "7", timestamp |-> "1000", name |-> "frame_7.webm"]

\* the requests that differ from BaseRequest in one field
OneOff ==
    {BaseRequest, [BaseRequest EXCEPT !.userId = Absent],
     [BaseRequest EXCEPT !.file = FALSE]}
    \cup {[BaseRequest EXCEPT !.type = t] : t \in Types}
    \cup {[BaseRequest EXCEPT !.payload = p] : p \in Payloads}
    \cup {[BaseRequest EXCEPT !.frameNumber = f] : f \in FrameStrs}
    \cup {[BaseRequest EXCEPT !.timestamp = t] : t \in TsStrs}
    \cup {[BaseRequest EXCEPT !.name = "blob"]}

\* the requests the endpoint receives: those of OneOff, and those whose type is
\* not audio/webm or whose payload exceeds the ceiling together with a frame
\* number that is no number or with the type audio/mp4
Requests ==
    OneOff
    \cup {[q EXCEPT !.frameNumber = "abc"] :
            q \in {r \in OneOff : r.type = <<"audio/ogg">>
                                    \/ r.payload.len > MaxBytes}}
    \cup {[q EXCEPT !.type = <<"audio/mp4">>] :
            q \in {r \in OneOff : r.payload.len > MaxBytes}}

\* ---- the ingestion endpoint: the pure steps of the handler -------------------
\* a JavaScript number: an integer, or NaN
Num(n) == [nan |-> FALSE, n |-> n]
NaN == [nan |-> TRUE, n |-> 0]

\* the value of the strings that are decimal numerals
Decimal ==
    [str \in {"0", "1", "2", "3", "4", "5", "6", "7", "8", "9", "1000"} |->
        CASE str = "0" -> 0 [] str = "1" -> 1 [] str = "2" -> 2 [] str = "3" -> 3
          [] str = "4" -> 4 [] str = "5" -> 5 [] str = "6" -> 6 [] str = "7" -> 7
          [] str = "8" -> 8 [] str = "9" -> 9 [] str = "1000" -> 1000]

\* Number(str): the value of a numeral, NaN for any other non-empty string
Number(str) == IF str \in DOMAIN Decimal THEN Num(Decimal[str]) ELSE NaN

\* Number.isFinite
isFinite(n) == ~n.nan

\* !str: the field is absent or empty
Falsy(str) == str = Absent \/ str = ""

\* file.type || 'audio/webm'
rawMime(q) == IF q.type = <<>> THEN <<"audio/webm">> ELSE q.type

\* the test of the declared type: TRUE when the request is refused with 415
\*   route.ts line 30:        mime !== 'audio/webm'
\*   part_002 line 30:        mime !== 'audio/webm' && mime !== 'audio/mp4'
\*   record/page.tsx 37-40:   neither startsWith('audio/webm') nor
\*                            'audio/mp4' nor startsWith('audio/mp4;')
\* variant: every revision accepts audio/ogg too
unsupported_ogg(v, q) ==
    rawMime(q)[1] \notin {"audio/webm", "audio/mp4", "audio/ogg"}
unsupported(v, q) ==
    CASE v = "route" -> rawMime(q) # <<"audio/webm">>
      [] v = "part002" -> rawMime(q) # <<"audio/webm">> /\ rawMime(q) # <<"audio/mp4">>
      [] v = "record" -> rawMime(q)[1] \notin {"audio/webm", "audio/mp4"}

\* the content type written to the bucket and to the record
\*   route.ts 49, 58: 'audio/webm'; part_002 29: the declared type;
\*   record/page.tsx 45: 'audio/webm' or 'audio/mp4'
contentType(v, q) ==
    CASE v = "route" -> "audio/webm"
      [] v = "part002" -> rawMime(q)[1]
      [] v = "record" -> IF rawMime(q)[1] = "audio/webm" THEN "audio/webm" ELSE "audio/mp4"

\* the extension in the key
ext(v, q) ==
    CASE v = "route" -> "webm"
      [] v = "part002" -> IF rawMime(q) = <<"audio/webm">> THEN "webm" ELSE "mp4"
      [] v = "record" -> IF rawMime(q)[1] = "audio/webm" THEN "webm" ELSE "m4a"

\* buf.length > 5 * 1024 * 1024
\* variant: a payload of exactly the ceiling is refused too
tooLarge_atCeiling(q) == q.payload.len >= MaxBytes
tooLarge(q) == q.payload.len > MaxBytes

\* crypto.createHash('sha256').update(buf).digest('hex')
sha256(payload) == <<"sha256", payload.content, payload.len>>
NoDigest == <<>>

\* `users/${userId}/audio/${ext}/frame_${frameNumber}_${ts_ms}.${ext}`
\* variant: the key also names the content of the payload
objectKey_byContent(v, q) ==
    <<"users", q.userId, "audio", ext(v, q), "frame",
      Number(q.frameNumber), Number(q.timestamp), ext(v, q), q.payload.content>>
objectKey(v, q) ==
    <<"users", q.userId, "audio", ext(v, q), "frame",
      Number(q.frameNumber), Number(q.timestamp), ext(v, q)>>
NoKey == <<>>

\* ---- the ingestion endpoint: the handler POST --------------------------------
\* a response without a body of the handler's making
NoBody == [none |-> TRUE]

\* the handler from auth() to its first write: the status and body it returns
\* at once, or status 0 when the request passes every check (in the order of the
\* code: the session, the fields of the form, the declared type, the size and,
\* in record/page.tsx only, Number.isFinite of both numbers)
checks(v, q) ==
    IF q.userId = Absent
        THEN [status |-> 307, body |-> NoBody]
    ELSE IF ~q.file \/ Falsy(q.timestamp) \/ Falsy(q.frameNumber)
        THEN [status |-> 400, body |-> [error |-> <<"Bad form data">>]]
    ELSE IF unsupported(v, q)
        THEN [status |-> 415,
              body |-> [error |-> IF v = "record"
                                  THEN <<"Unsupported mime: ", rawMime(q)>>
                                  ELSE <<"Unsupported mime">>]]
    ELSE IF tooLarge(q)
        THEN [status |-> 413, body |-> [error |-> <<"Frame too large">>]]
    ELSE IF v = "record"
            /\ (~isFinite(Number(q.frameNumber)) \/ ~isFinite(Number(q.timestamp)))
        THEN [status |-> 400, body |-> [error |-> <<"Bad frameNumber/timestamp">>]]
    ELSE [status |-> 0, body |-> NoBody]

\* insertedId.toHexString()
toHexString(id) == <<"hex", id>>

\* the body of the success response
\*   route.ts 65: { ok: true }
\*   part_002 74-78: { ok: true, frameId, s3Key }
\*   record/page.tsx 82: { ok: true, key, bytes }
successBody(v, r, insertedId) ==
    CASE v = "route" -> [ok |-> TRUE]
      [] v = "part002" ->
            [ok |-> TRUE, frameId |-> toHexString(insertedId), s3Key |-> r.key]
      [] v = "record" ->
            [ok |-> TRUE, key |-> r.key, bytes |-> r.in.payload.len]

\* the message of the error s3.send() or insertOne() throws
ErrMessage == "message of the store"

\* a write threw.  record/page.tsx 83-86 catches and answers 500 with the message;
\* route.ts and part_002 have no try, the rejection leaves the handler and the
\* framework answers 500 with its own body.
failureBody(v) ==
    IF v = "record" THEN [error |-> <<"Upload failed">>, detail |-> ErrMessage]
    ELSE NoBody

\* the document handed to insertAudioMeta
audioDoc(v, r, id) ==
    [_id |-> id, clerk_user_id |-> r.in.userId,
     frameNumber |-> Number(r.in.frameNumber), ts_ms |-> Number(r.in.timestamp),
     mime |-> contentType(v, r.in), bytes |-> r.in.payload.len,
     s3Key |-> r.key, checksum |-> r.checksum]

\* variant: the object is not stored
putObject_lost(bucket, obj) == bucket
\* PutObject: the object replaces the one stored under the same key
putObject(bucket, obj) == {o \in bucket : o.key # obj.key} \cup {obj}

\* a request arrives and the handler runs up to its response or up to the await
\* of s3.send()
POST(q) ==
    /\ UNCHANGED <<cvars, hookVars>>
    /\ Len(reqs) < MaxReqs
    /\ LET c == checks(variant, q)
       IN  reqs' = Append(reqs,
              IF c.status # 0
              THEN [in |-> q, pc |-> "done", status |-> c.status, body |-> c.body,
                    checksum |-> NoDigest, key |-> NoKey, puts |-> 0,
                    inserts |-> 0, recId |-> 0]
              ELSE [in |-> q, pc |-> "put", status |-> 0, body |-> c.body,
                    checksum |-> sha256(q.payload), key |-> objectKey(variant, q),
                    puts |-> 1, inserts |-> 0, recId |-> 0])
    /\ UNCHANGED <<variant, s3, mongo>>

\* the awaited s3.send() of request i settles; on success the handler goes on
\* to the await of insertAudioMeta()
\* variant: the handler goes on to insertAudioMeta() whatever s3.send() did
putDone_careless(i, ok) ==
    /\ UNCHANGED <<cvars, hookVars>>
    /\ i \in 1..Len(reqs)
    /\ reqs[i].pc = "put"
    /\ s3' = IF ok
             THEN putObject(s3, [key |-> reqs[i].key, body |-> reqs[i].in.payload,
                                 contentType |-> contentType(variant, reqs[i].in)])
             ELSE s3
    /\ reqs' = [reqs EXCEPT ![i].pc = "insert", ![i].inserts = 1]
    /\ UNCHANGED <<variant, mongo>>

putDone(i, ok) ==
    /\ UNCHANGED <<cvars, hookVars>>
    /\ i \in 1..Len(reqs)
    /\ reqs[i].pc = "put"
    /\ IF ok
       THEN /\ s3' = putObject(s3, [key |-> reqs[i].key, body |-> reqs[i].in.payload,
                                    contentType |-> contentType(variant, reqs[i].in)])
            /\ reqs' = [reqs EXCEPT ![i].pc = "insert", ![i].inserts = 1]
       ELSE /\ s3' = s3
            /\ reqs' = [reqs EXCEPT ![i].pc = "done", ![i].status = 500,
                                    ![i].body = failureBody(variant)]
    /\ UNCHANGED <<variant, mongo>>

\* variant: a failed insertOne() has written the document all the same
insertDone_onError(i, ok) ==
    /\ UNCHANGED <<cvars, hookVars>>
    /\ i \in 1..Len(reqs)
    /\ reqs[i].pc = "insert"
    /\ LET id == Len(mongo) + 1
       IN  /\ mongo' = Append(mongo, audioDoc(variant, reqs[i], id))
           /\ reqs' = [reqs EXCEPT ![i].pc = "done",
                                   ![i].status = IF ok THEN 200 ELSE 500,
                                   ![i].recId = id,
                                   ![i].body = IF ok
                                               THEN successBody(variant, reqs[i], id)
                                               ELSE failureBody(variant)]
    /\ UNCHANGED <<variant, s3>>

\* the awaited insertAudioMeta() of request i settles (db/audio.ts 42-48:
\* insertOne, which assigns the _id); on success the handler answers
insertDone(i, ok) ==
    /\ UNCHANGED <<cvars, hookVars>>
    /\ i \in 1..Len(reqs)
    /\ reqs[i].pc = "insert"
    /\ IF ok
       THEN LET id == Len(mongo) + 1
            IN  /\ mongo' = Append(mongo, audioDoc(variant, reqs[i], id))
                /\ reqs' = [reqs EXCEPT ![i].pc = "done", ![i].status = 200,
                                        ![i].recId = id,
                                        ![i].body = successBody(variant, reqs[i], id)]
       ELSE /\ mongo' = mongo
            /\ reqs' = [reqs EXCEPT ![i].pc = "done", ![i].status = 500,
                                    ![i].body = failureBody(variant)]
    /\ UNCHANGED <<variant, s3>>

EpNext ==
    \/ \E q \in Requests : POST(q)
    \/ \E i \in 1..Len(reqs), ok \in BOOLEAN : putDone(i, ok)
    \/ \E i \in 1..Len(reqs), ok \in BOOLEAN : insertDone(i, ok)

\* any of the three revisions is deployed; the component of the browser is idle
EpInit ==
    /\ variant \in Variants
    /\ EpIdle
    /\ uploader = HookIdle
    /\ isListening = FALSE
    /\ streamRef = 0
    /\ recorderRef = 0
    /\ seqRef = 0
    /\ sendingRef = FALSE
    /\ pendingRef = NoFrame
    /\ awaiting = 0
    /\ acquired = 0
    /\ liveStreams = {}
    /\ recState = [r \in Ids |-> "none"]
    /\ started = {}
    /\ tasks = <<>>
    /\ flights = <<>>
    /\ emitted = <<>>
    /\ sent = <<>>
    /\ halted = FALSE
    /\ lastOp = NoCall

EndpointSpec == EpInit /\ [][EpNext]_vars

\* ---- the request the component builds, lines 43-47 and 93-98 ----------------
\* the formats MediaRecorder.isTypeSupported() is asked about
WebmOpus == <<"audio/webm", ";codecs=opus">>
Webm == <<"audio/webm">>
OggOpus == <<"audio/ogg", ";codecs=opus">>
Ogg == <<"audio/ogg">>
Mp4 == <<"audio/mp4">>

\* VoiceCircle.tsx lines 43-45: the mimeType given to the recorder; <<>> is ''
\* and leaves the choice to the platform
selectMime(supported) ==
    IF WebmOpus \in supported THEN WebmOpus
    ELSE IF Webm \in supported THEN Webm
    ELSE <<>>

\* the formats a platform records in when it is given no mimeType
PlatformDefaults == {WebmOpus, Mp4}

\* Blob.type of a segment of a recorder constructed with mimeType mime on a
\* platform whose own choice is dflt
blobType(mime, dflt) == IF mime = <<>> THEN dflt ELSE mime

\* String(n) for the numbers the component sends
String(n) ==
    CASE n = 0 -> "0" [] n = 1 -> "1" [] n = 2 -> "2" [] n = 3 -> "3"
      [] n = 4 -> "4" [] n = 5 -> "5" [] n = 6 -> "6" [] n = 7 -> "7"
      [] n = 8 -> "8" [] n = 9 -> "9" [] n = 1000 -> "1000"

\* Date.now() at the time the segment was offered
NowMs == 1000

\* lines 93-98: the form sendLoop posts for a frame whose blob has the given type
buildForm(frame, type, userId) ==
    [file |-> [type |-> IF type = <<>> THEN Webm ELSE type,
               name |-> <<"frame_", String(frame.seq), ".webm">>,
               payload |-> [content |-> "a", len |-> 12288]],
     userId |-> userId,
     timestamp |-> String(NowMs),
     frameId |-> String(frame.seq)]

\* form.get(name)?.toString() of a text field
getText(form, name) == IF name \in DOMAIN form THEN form[name] ELSE Absent

\* route.ts lines 11-18 (and the same lines of the other two revisions): what
\* the handler reads of a form posted by a caller with the given session
audioFields(form, session) ==
    [userId |-> session,
     file |-> "audio" \in DOMAIN form,
     type |-> IF "audio" \in DOMAIN form THEN form.audio.type ELSE <<>>,
     payload |-> IF "audio" \in DOMAIN form THEN form.audio.payload
                 ELSE [content |-> "a", len |-> 12288],
     frameNumber |-> getText(form, "frameNumber"),
     timestamp |-> getText(form, "timestamp"),
     name |-> "blob"]

\* uploadVideo/route.ts lines 22-31, the handler of /api/uploadAudio: the status
\* it answers at once, or 0 when it goes on to the put
uploadAudioChecks(form) ==
    IF "file" \notin DOMAIN form \/ Falsy(getText(form, "userId")) THEN 400 ELSE 0

\* ---- the hook useAudioChunkUploader and /api/uploadAudio ---------------------
\* useAudioChunkUploader.tsx line 6: the preference list of pickAudioMime
HookPrefs == <<WebmOpus, Webm, OggOpus, Ogg>>
HookFormats == {HookPrefs[k] : k \in 1..Len(HookPrefs)}

\* lines 5-11: the first entry of the list that is supported, else 'audio/webm'
\* variant: the last entry of the list that is supported
pickAudioMime_last(supported) ==
    LET hits == {k \in 1..Len(HookPrefs) : HookPrefs[k] \in supported}
    IN  IF hits = {} THEN Webm
        ELSE HookPrefs[CHOOSE k \in hits : \A j \in hits : j <= k]
pickAudioMime(supported) ==
    LET hits == {k \in 1..Len(HookPrefs) : HookPrefs[k] \in supported}
    IN  IF hits = {} THEN Webm
        ELSE HookPrefs[CHOOSE k \in hits : \A j \in hits : k <= j]

\* the userId the page passes to the hook
HookUserId == "u1"

\* what the identity provider knows of the caller of a request
Sessions == {Absent, "u1", "u2"}

hookRest == <<cvars, variant, reqs, mongo>>

\* the recorders of the hook that still deliver chunks
hActive == {r \in Ids : uploader.recState[r] \in {"recording", "stopping"}}

\* start() up to the await of getUserMedia (lines 42-45); there is no guard
hStart ==
    /\ uploader.acquired < MaxStarts
    /\ uploader' = [uploader EXCEPT !.acquired = @ + 1, !.awaiting = @ + 1]
    /\ UNCHANGED <<s3, hookRest>>

\* the continuation of start() once getUserMedia has settled (lines 46-77).
\* new MediaRecorder(s, { mimeType }) throws when the type is not supported;
\* the catch block only sets the status text.
hStartResume(granted) ==
    /\ uploader.awaiting > 0
    /\ LET id == uploader.acquired - uploader.awaiting + 1
           mimeType == pickAudioMime(uploader.supported)
           resumed == [uploader EXCEPT !.awaiting = @ - 1]
           held == [resumed EXCEPT !.streamRef = id, !.mime = mimeType]
       IN  uploader' =
             IF ~granted THEN resumed
             ELSE IF mimeType \notin uploader.supported THEN held
             ELSE [held EXCEPT !.mrRef = id,
                               !.frameCounterRef = 0,
                               !.recState[id] = "recording",
                               !.lastId = IF hActive = {} THEN 0 ELSE @]
    /\ UNCHANGED <<s3, hookRest>>

\* mr.ondataavailable (lines 53-62) up to the await of fetch() in uploadChunk
\* (line 35), applied to the hook's state h; a chunk of size 0 is ignored
hOndataavailable(h, hasData) ==
    IF ~hasData THEN h
    ELSE [h EXCEPT !.emitted = @ + 1,
                   !.frameCounterRef = @ + 1,
                   !.lastId = h.frameCounterRef + 1,
                   !.uploads = @ (+) SetToBag({h.frameCounterRef + 1})]

\* chunkMs have elapsed on a recorder that is recording (line 74)
hTimeslice(r, hasData) ==
    /\ uploader.recState[r] = "recording"
    /\ hasData => uploader.emitted < MaxEmit
    /\ uploader' = hOndataavailable(uploader, hasData)
    /\ UNCHANGED <<s3, hookRest>>

\* the dataavailable event a stopped recorder fires with the data gathered
\* since the last chunk
hFlush(r, hasData) ==
    /\ uploader.recState[r] = "stopping"
    /\ hasData => uploader.emitted < MaxEmit
    /\ uploader' = hOndataavailable([uploader EXCEPT !.recState[r] = "inactive"],
                                    hasData)
    /\ UNCHANGED <<s3, hookRest>>

\* stop(), lines 80-87
hStop ==
    /\ LET mr == uploader.mrRef
       IN  uploader' =
             [uploader EXCEPT
                !.recState = IF mr # 0 /\ @[mr] = "recording"
                             THEN [@ EXCEPT ![mr] = "stopping"] ELSE @,
                !.streamRef = 0]
    /\ UNCHANGED <<s3, hookRest>>

\* lines 27-33: the form uploadChunk posts
hookForm(frameId, type) ==
    [file |-> [type |-> IF type = <<>> THEN Webm ELSE type,
               name |-> <<"chunk_", String(NowMs), ".webm">>,
               payload |-> [content |-> "a", len |-> 12288]],
     userId |-> HookUserId,
     frameId |-> String(frameId)]

\* value || '' and value || fallback of a text field
orElse(value, fallback) == IF Falsy(value) THEN fallback ELSE value

\* name.replace(/[^\w.\-]+/g, '_') on a name given as a sequence of pieces
safeName(name) ==
    [k \in DOMAIN name |-> IF name[k] \in {" ", "/", ":"} THEN "_" ELSE name[k]]

\* uploadVideo/route.ts lines 25-34: `${userId}/audio/frame_${frameId || ts}_${safeName}`
uploadAudioKey(form) ==
    <<getText(form, "userId"), "audio", "frame",
      orElse(getText(form, "frameId"),
             orElse(getText(form, "timestamp"), String(NowMs))),
      safeName(form.file.name)>>

\* The handler of /api/uploadAudio (uploadVideo/route.ts lines 16-48) handles
\* the request that carries frame id i, sent by a caller with the given session, and the
\* awaited fetch() of uploadChunk settles (lines 35-39).  The handler does not
\* ask the identity provider.  ok: s3.send() succeeded.
uploadAudio(i, session, ok) ==
    /\ BagIn(i, uploader.uploads)
    /\ LET form == hookForm(i, uploader.mime)
           status == uploadAudioChecks(form)
           settled == [uploader EXCEPT !.uploads = @ (-) SetToBag({i})]
       IN  IF status = 0 /\ ok
           THEN /\ s3' = putObject(s3, [key |-> uploadAudioKey(form),
                                        body |-> form.file.payload,
                                        contentType |-> form.file.type[1]])
                /\ uploader' = [settled EXCEPT !.lastReq =
                                  [status |-> 200, session |-> session,
                                   owner |-> uploadAudioKey(form)[1],
                                   wrote |-> TRUE]]
           ELSE /\ s3' = s3
                /\ uploader' = [settled EXCEPT !.lastReq =
                                  [status |-> IF status = 0 THEN 500 ELSE status,
                                   session |-> session, owner |-> "",
                                   wrote |-> FALSE]]
    /\ UNCHANGED hookRest

HookNext ==
    \/ hStart
    \/ \E granted \in BOOLEAN : hStartResume(granted)
    \/ \E r \in Ids, d \in BOOLEAN : hTimeslice(r, d)
    \/ \E r \in Ids, d \in BOOLEAN : hFlush(r, d)
    \/ hStop
    \/ \E i \in 1..MaxEmit, session \in Sessions, ok \in BOOLEAN :
          uploadAudio(i, session, ok)

\* the VoiceCircle component as it is after its first render
ClientIdle ==
    /\ isListening = FALSE
    /\ streamRef = 0
    /\ recorderRef = 0
    /\ seqRef = 0
    /\ sendingRef = FALSE
    /\ pendingRef = NoFrame
    /\ awaiting = 0
    /\ acquired = 0
    /\ liveStreams = {}
    /\ recState = [r \in Ids |-> "none"]
    /\ started = {}
    /\ tasks = <<>>
    /\ flights = <<>>
    /\ emitted = <<>>
    /\ sent = <<>>
    /\ halted = FALSE
    /\ lastOp = NoCall

\* what isTypeSupported() accepts of the list: all of it, the webm entries
\* only, the ogg entries only, plain ogg only, nothing
Platforms == {HookFormats, {WebmOpus, Webm}, {OggOpus, Ogg}, {Ogg}, {}}

\* the hook on each platform; VoiceCircle and /api/audio are idle
HookInit ==
    /\ uploader \in {[HookIdle EXCEPT !.supported = p] : p \in Platforms}
    /\ variant = "route"
    /\ EpIdle
    /\ ClientIdle

HookSpec == HookInit /\ [][HookNext]_vars

\* the sets of formats a platform may support
SupportedSets == SUBSET (HookFormats \cup {Mp4})

\* Format negotiation alone: the hook is started and stopped on a platform
\* with any set of supported formats, and no chunk is delivered.
NegotiateInit ==
    /\ uploader \in {[HookIdle EXCEPT !.supported = p] : p \in SupportedSets}
    /\ variant = "route"
    /\ EpIdle
    /\ ClientIdle

NegotiateNext ==
    \/ hStart
    \/ \E granted \in BOOLEAN : hStartResume(granted)
    \/ hStop

NegotiateSpec == NegotiateInit /\ [][NegotiateNext]_vars

\* ---- properties ----------------------------------------------------------
\* the controller is Idle: not listening, and holding no recorder and no stream
Idle == ~isListening /\ recorderRef = 0 /\ streamRef = 0

SentIds == {sent[k] : k \in 1..Len(sent)}

\* C1: at most one upload request issued by sendLoop is in flight, whatever the
\* interleaving of segment emissions, upload completions and upload failures.
C1_SingleFlight == Len(flights) <= 1

\* a frame is emitted while an upload is in flight, after an earlier upload ended
C1_Witness == Len(flights) = 1 /\ pendingRef # NoFrame /\ Len(sent) >= 2

\* frames that were replaced in the slot before being taken
Overwritten == (1..Len(emitted)) \ (SentIds \cup {pendingRef.id})

\* C2: the slot holds only the most recently offered frame, and whenever a frame
\* is sent it is the most recently offered one, so a frame that was replaced
\* in the slot is never sent.
C2_NewestWins ==
    /\ [](pendingRef # NoFrame => pendingRef.id = Len(emitted))
    /\ [][sent' # sent => sent' = Append(sent, Len(emitted'))]_vars

\* A was replaced by B before any take, and B has been sent
C2_Witness == \E a \in Overwritten : (a + 1) \in SentIds

\* C3: the frames handed to the network are sent in emission order without
\* duplication, and within one capture session (one recorder) their sequence
\* numbers are strictly increasing.
C3_SentIncreasing ==
    \A i, j \in 1..Len(sent) :
        i < j => /\ sent[i] < sent[j]
                 /\ emitted[sent[i]].rec = emitted[sent[j]].rec
                       => emitted[sent[i]].seq < emitted[sent[j]].seq

\* the upload of the frame of loop i ends in failure: fetch() throws, or the
\* body of a non-success response has been read
uploadFails(i) == fetchDone(i, "throw") \/ textDone(i)

\* C4: a frame that was sent is never sent again and never back in the slot, and
\* when an upload fails the loop checks the slot: a pending frame is taken and
\* sent next, and with nothing pending the uploader goes idle.
C4_NoRetry ==
    /\ [](\A j, k \in 1..Len(sent) : j # k => sent[j] # sent[k])
    /\ [](pendingRef # NoFrame => \A k \in 1..Len(sent) : sent[k] < pendingRef.id)
    /\ [][\A i \in 1..Len(flights) : uploadFails(i) =>
             IF pendingRef # NoFrame
             THEN /\ sent' = Append(sent, pendingRef.id)
                  /\ pendingRef' = NoFrame
                  /\ flights' = <<[frame |-> pendingRef, pc |-> "fetch"]>>
             ELSE /\ sent' = sent
                  /\ flights' = <<>>
                  /\ pendingRef' = NoFrame]_vars

\* the upload of C has just failed while D was pending, and D is in flight
C4_Witness ==
    /\ lastOp = "failed"
    /\ Len(flights) = 1
    /\ flights[1].frame.id = sent[Len(sent)]

\* the most recently emitted frame has been handed to fetch()
UpToDate == sent # <<>> /\ sent[Len(sent)] = Len(emitted)

Drained ==
    /\ pendingRef = NoFrame
    /\ ~sendingRef
    /\ flights = <<>>
    /\ emitted # <<>> => UpToDate

\* C5: if every upload request eventually completes, a frame placed in the slot
\* is eventually followed by the sending of the newest frame emitted by then
\* (that frame or a newer one), and when emissions have ceased the last emitted
\* frame has been sent and the uploader is idle with an empty slot.
C5_Liveness ==
    /\ (pendingRef # NoFrame) ~> UpToDate
    /\ <>[]Drained

\* a frame was replaced in the slot, its successor was sent and the uploader drained
C5_Witness == Drained /\ Len(sent) >= 2 /\ Overwritten # {}

\* C6: in every capture session (one recorder) the first emitted frame carries
\* sequence 0 and the sequence numbers of its frames are strictly increasing.
C6_SeqPerSession ==
    \A i \in 1..Len(emitted) :
        LET prev == {j \in 1..(i - 1) : emitted[j].rec = emitted[i].rec}
        IN  IF prev = {}
            THEN emitted[i].seq = 0
            ELSE \A j \in prev : emitted[j].seq < emitted[i].seq

\* C7: start() while Listening and stop() while Idle change nothing of the
\* controller: no reference, counter, slot or guard, and no device is acquired
\* or released.
C7_Idempotent ==
    /\ [][(start /\ isListening) => UNCHANGED ctrl]_vars
    /\ [][(stop /\ Idle) => UNCHANGED ctrl]_vars

\* start() has just been called while Listening
C7_Witness == lastOp = "start" /\ isListening /\ recorderRef # 0

\* C8: a start() attempt that fails in an Idle controller leaves it Idle:
\* isListening false, no recorder and no stream retained.
C8_FailedStartStaysIdle ==
    [][(Idle /\ \E o \in StartOutcomes \ {"ok"} : startResume(o)) => Idle']_vars

\* C9: after stop() in the Listening state no frame is offered to the slot and
\* no sequence number is consumed until the next start().
C9_StopHaltsEmissions == [][halted => emitted' = emitted]_vars

\* C10: stop() leaves the slot, the guard and the request in flight untouched
\* and completes no upload, and a request in flight when stop() is called
\* still runs to its end.
C10_StopLeavesUploads ==
    /\ [][stop => UNCHANGED <<pendingRef, sendingRef, flights, sent>>]_vars
    /\ (lastOp = "stop" /\ flights # <<>>) ~> (flights = <<>>)

\* stop() has just run with a request in flight and a frame pending
C10_Witness == lastOp = "stop" /\ flights # <<>> /\ pendingRef # NoFrame

\* the capture source was lost while Listening and no handler has run since
CaptureLost == lastOp = "lost"

\* C11: when the capture source ends abnormally while Listening (recorder error
\* or device disconnect, no call of stop()), the controller eventually becomes
\* Idle, and a recorder that has become inactive never records again.
C11_AbnormalEndIdles ==
    /\ CaptureLost ~> Idle
    /\ [][\A r \in Ids : recState[r] = "inactive" => recState'[r] = "inactive"]_vars

\* a step of sendLoop that handles a failed upload: a response that is not a
\* success arrived, its text was read, or fetch() threw
uploadFailure ==
    \E i \in 1..Len(flights) : fetchDone(i, "notok") \/ uploadFails(i)

\* C12: a failed upload changes nothing of the controller (isListening, the
\* recorder, the stream, the recorder events to come); it never leaves the
\* guard of sendLoop taken without a loop running, so later emissions are
\* still offered and sent; and a frame pending at the failure is sent at once.
C12_FailureLeavesController ==
    /\ [][uploadFailure => UNCHANGED <<isListening, streamRef, recorderRef,
                                        recState, liveStreams, started, tasks,
                                        seqRef, emitted>>]_vars
    /\ [](sendingRef => flights # <<>>)
    /\ [][\A i \in 1..Len(flights) :
            uploadFails(i) /\ pendingRef # NoFrame
                => sent' = Append(sent, pendingRef.id)]_vars

\* an upload has just failed while Listening with the recorder recording, and
\* the segment emitted meanwhile is being uploaded
C12_Witness ==
    /\ lastOp = "failed"
    /\ isListening
    /\ recorderRef # 0
    /\ recState[recorderRef] = "recording"
    /\ flights # <<>>

\* ---- properties of the ingestion endpoint --------------------------------------
Answered(i) == reqs[i].pc = "done"

\* the caller has a session
Authenticated(q) == q.userId # Absent

\* the decimal numeral the client submits for a number
Numeral(n) ==
    CASE n = 7 -> "7"
      [] n = 1000 -> "1000"
Numbers == {7, 1000}
Numerals == {Numeral(n) : n \in Numbers}

\* the payload is present and both numbers are present and numeric
WellFormed(q) ==
    q.file /\ q.frameNumber \in Numerals /\ q.timestamp \in Numerals

AllowList == {"audio/webm", "audio/mp4"}

\* the request declares a type, and it is one of the allow-list
AllowedType(q) == q.type # <<>> /\ q.type[1] \in AllowList

\* request i has caused no write to either store
NoWrites(i) == reqs[i].puts = 0 /\ reqs[i].inserts = 0 /\ reqs[i].recId = 0

\* C13: every request of a signed-in caller whose payload is missing, or whose
\* frameNumber or timestamp is missing or not numeric, is answered with 400 and
\* causes no put and no insert, whatever its declared type and its size.
C13_MalformedRejected ==
    \A i \in 1..Len(reqs) :
        Authenticated(reqs[i].in) /\ ~WellFormed(reqs[i].in)
            => Answered(i) /\ reqs[i].status = 400 /\ NoWrites(i)

\* C14: a well-formed request of a signed-in caller that declares a type is
\* answered with 415 exactly when that type is outside the allow-list
\* {audio/webm, audio/mp4}, and a request answered with 415 causes no put and
\* no insert.
C14_TypeAllowList ==
    \A i \in 1..Len(reqs) :
        Authenticated(reqs[i].in) /\ WellFormed(reqs[i].in) /\ reqs[i].in.type # <<>>
            => /\ reqs[i].status = 415 <=> ~AllowedType(reqs[i].in)
               /\ reqs[i].status = 415 => NoWrites(i)

\* C15: a well-formed request of a signed-in caller with a type of the
\* allow-list is answered with 413 exactly when its payload is longer than
\* 5,242,880 bytes, and then no checksum is computed and nothing is written.
C15_SizeCeiling ==
    \A i \in 1..Len(reqs) :
        Authenticated(reqs[i].in) /\ WellFormed(reqs[i].in) /\ AllowedType(reqs[i].in)
            => /\ reqs[i].status = 413 <=> reqs[i].in.payload.len > 5242880
               /\ reqs[i].status = 413 => reqs[i].checksum = NoDigest /\ NoWrites(i)

\* the requests that have a record in the collection
Recorded == {i \in 1..Len(reqs) : reqs[i].recId # 0}

\* C16: a request answered with success has issued exactly one put and one
\* insert and has one record; a request answered with an error has no record;
\* the collection holds one record per recorded request and nothing else; and
\* a record, once inserted, is never changed or removed.
C16_ExactlyOnce ==
    /\ [](\A i \in 1..Len(reqs) :
            /\ reqs[i].status = 200
                 => /\ reqs[i].puts = 1
                    /\ reqs[i].inserts = 1
                    /\ reqs[i].recId \in 1..Len(mongo)
            /\ reqs[i].status \notin {0, 200} => reqs[i].recId = 0)
    /\ [](/\ Len(mongo) = Cardinality(Recorded)
          /\ \A i, j \in Recorded : reqs[i].recId = reqs[j].recId => i = j)
    /\ [][/\ Len(mongo') >= Len(mongo)
          /\ \A k \in 1..Len(mongo) : mongo'[k] = mongo[k]]_vars

\* one request was answered with success and another with an error after its
\* insert failed
C16_Witness ==
    \E i, j \in 1..Len(reqs) :
        /\ reqs[i].status = 200
        /\ reqs[j].status = 500
        /\ reqs[j].inserts = 1

\* C17: the storage key of every record names an object that is in the bucket,
\* and a request has issued its insert only when the object under its key is
\* in the bucket.
C17_RecordHasBlob ==
    /\ \A k \in 1..Len(mongo) : \E o \in s3 : o.key = mongo[k].s3Key
    /\ \A i \in 1..Len(reqs) :
          reqs[i].inserts > 0 => \E o \in s3 : o.key = reqs[i].key

\* a record is in the collection while the put of another request has failed
C17_Witness ==
    /\ mongo # <<>>
    /\ \E i \in 1..Len(reqs) : reqs[i].status = 500 /\ reqs[i].inserts = 0

\* C18: when the put or the insert of a request fails the request is answered
\* with 500; after a failed put no insert is issued; and no request issues a
\* second put or a second insert.
C18_FailureIs500 ==
    /\ [][\A i \in 1..Len(reqs) :
            putDone(i, FALSE)
               => Answered(i)' /\ reqs'[i].status = 500 /\ reqs'[i].inserts = 0]_vars
    /\ [][\A i \in 1..Len(reqs) :
            insertDone(i, FALSE) => Answered(i)' /\ reqs'[i].status = 500]_vars
    /\ [](\A i \in 1..Len(reqs) : reqs[i].puts <= 1 /\ reqs[i].inserts <= 1)

\* the put of one request and the insert of another have failed
C18_Witness ==
    \E i, j \in 1..Len(reqs) :
        /\ reqs[i].status = 500 /\ reqs[i].inserts = 0
        /\ reqs[j].status = 500 /\ reqs[j].inserts = 1

\* the fields under which a body may carry the storage key
KeyFields == {"storageKey", "s3Key", "key"}

\* C19: every success response carries ok: true, the identifier of the record
\* inserted by the request and the key its payload was put under.
C19_SuccessBody ==
    \A i \in 1..Len(reqs) :
        reqs[i].status = 200
            => /\ "ok" \in DOMAIN reqs[i].body
               /\ reqs[i].body.ok
               /\ "frameId" \in DOMAIN reqs[i].body
               /\ reqs[i].body.frameId = toHexString(reqs[i].recId)
               /\ \E f \in KeyFields \cap DOMAIN reqs[i].body :
                     reqs[i].body[f] = reqs[i].key

\* C20: the record of every accepted request has the caller as owner, the
\* frame number and the timestamp submitted, the length of the payload, the
\* allow-listed type of the payload, the key the payload was put under and the
\* digest of the bytes put.
C20_RecordFields ==
    \A i \in Recorded :
        LET d == mongo[reqs[i].recId]
            q == reqs[i].in
        IN  /\ d.clerk_user_id = q.userId
            /\ \E n \in Numbers : Numeral(n) = q.frameNumber /\ d.frameNumber = Num(n)
            /\ \E n \in Numbers : Numeral(n) = q.timestamp /\ d.ts_ms = Num(n)
            /\ d.bytes = q.payload.len
            /\ d.mime \in AllowList
            /\ q.type # <<>> => d.mime = q.type[1]
            /\ d.s3Key = reqs[i].key
            /\ d.checksum = sha256(q.payload)

\* the requests that passed every check, so that a key was built for them
Accepted == {i \in 1..Len(reqs) : reqs[i].key # NoKey}

\* the container the declared type names: the media type without parameters
Container(q) == rawMime(q)[1]

\* C21: two accepted requests with the same owner, container, frameNumber and
\* timestamp have the same key, whatever their payload and file name; and a
\* key is users/{owner}/audio/{ext}/frame_{frameNumber}_{timestamp}.{ext},
\* with the numbers submitted when they are numeric.
C21_KeyDeterministic ==
    /\ \A i, j \in Accepted :
          /\ reqs[i].in.userId = reqs[j].in.userId
          /\ Container(reqs[i].in) = Container(reqs[j].in)
          /\ reqs[i].in.frameNumber = reqs[j].in.frameNumber
          /\ reqs[i].in.timestamp = reqs[j].in.timestamp
          => reqs[i].key = reqs[j].key
    /\ \A i \in Accepted :
          LET k == reqs[i].key
              q == reqs[i].in
          IN  /\ Len(k) = 8
              /\ k[1] = "users" /\ k[2] = q.userId /\ k[3] = "audio"
              /\ k[4] \in {"webm", "mp4", "m4a"} /\ k[8] = k[4]
              /\ k[5] = "frame"
              /\ \A n \in Numbers : Numeral(n) = q.frameNumber => k[6] = Num(n)
              /\ \A n \in Numbers : Numeral(n) = q.timestamp => k[7] = Num(n)

\* two accepted requests with different payloads have the same key
C21_Witness ==
    /\ \E i, j \in Accepted :
          reqs[i].key = reqs[j].key
              /\ reqs[i].in.payload.content # reqs[j].in.payload.content

\* the texts of the error values of the handlers
ErrorTexts == {"Bad form data", "Unsupported mime", "Frame too large",
               "Bad frameNumber/timestamp", "Upload failed"}

\* the error bodies that are fixed: one text and nothing else, or the body of
\* the framework
FixedBodies == {[error |-> <<t>>] : t \in ErrorTexts} \cup {NoBody}

\* C23: the body of every error response is a fixed error value: it carries
\* nothing of the request and no message of an exception of a store.
C23_NoLeak ==
    \A i \in 1..Len(reqs) : reqs[i].status >= 400 => reqs[i].body \in FixedBodies

\* C27: for every record, the object stored under its key has the digest the
\* record gives as checksum and the length it gives as bytes.
C27_BlobMatchesRecord ==
    \A k \in 1..Len(mongo) :
        \A o \in s3 :
            o.key = mongo[k].s3Key
                => sha256(o.body) = mongo[k].checksum /\ o.body.len = mongo[k].bytes

\* C24: between handlers, a frame in the slot implies that the guard is set and
\* a loop is suspended at an await; the guard is never set without a loop; and
\* a loop that resumes with a frame in the slot, after a success or a failure,
\* hands that frame to fetch().
C24_NoLostWakeup ==
    /\ [](pendingRef # NoFrame => sendingRef /\ flights # <<>>)
    /\ [](flights = <<>> => ~sendingRef)
    /\ [][\A i \in 1..Len(flights) :
            (fetchDone(i, "ok") \/ uploadFails(i)) /\ pendingRef # NoFrame
                => /\ sent' = Append(sent, pendingRef.id)
                   /\ pendingRef' = NoFrame
                   /\ sendingRef']_vars

\* a frame was offered while the loop reads the text of a failed response
C24_Witness ==
    /\ pendingRef # NoFrame
    /\ sendingRef
    /\ \E i \in 1..Len(flights) : flights[i].pc = "text"

\* the recorders that are recording
Recording == {r \in Ids : recState[r] = "recording"}

\* C25: at most one stream and at most one recorder are live, and a live
\* stream is the one streamRef holds.
C25_ExclusiveDevice ==
    /\ Cardinality(liveStreams) <= 1
    /\ Cardinality(Recording) <= 1
    /\ liveStreams \subseteq {streamRef}

\* C26: while no start() is suspended, isListening is true exactly when a
\* recorder and a stream are held; and a click while isListening is false
\* issues a request for the device.
C26_StateAgreement ==
    /\ [](awaiting = 0 => (isListening <=> recorderRef # 0 /\ streamRef # 0))
    /\ [][onClick /\ ~isListening => acquired' = acquired + 1]_vars

\* C28: the form sendLoop builds for a frame, whatever format the platform
\* supports and chooses, passes the checks of the form fields, of the numbers
\* and of the declared type of every revision of /api/audio and of
\* /api/uploadAudio: it is answered neither 400 nor 415.
C28_ClientEndpointAgree ==
    \A i \in 1..Len(flights) :
        \A supported \in SUBSET {WebmOpus, Webm}, dflt \in PlatformDefaults :
            LET form == buildForm(flights[i].frame,
                                  blobType(selectMime(supported), dflt), "u1")
            IN  /\ uploadAudioChecks(form) \notin {400, 415}
                /\ \A v \in Variants :
                      checks(v, audioFields(form, "u1")).status \notin {400, 415}

\* the first entry of prefs that is supported, dflt when none is
RECURSIVE firstSupported(_, _, _)
firstSupported(prefs, supported, dflt) ==
    IF prefs = <<>> THEN dflt
    ELSE IF Head(prefs) \in supported THEN Head(prefs)
    ELSE firstSupported(Tail(prefs), supported, dflt)

\* VoiceCircle.tsx lines 43-44: the formats the component asks for, in order
VoicePrefs == <<WebmOpus, Webm>>

\* C22 as stated: the format the hook and the component negotiate is the first
\* supported entry of the preference list, and the last entry of the list
\* when no entry is supported.
C22_FallbackIsLastEntry ==
    /\ uploader.mime # NoMime =>
          uploader.mime = firstSupported(HookPrefs, uploader.supported,
                                         HookPrefs[Len(HookPrefs)])
    /\ \A supported \in SupportedSets :
          /\ pickAudioMime(supported) =
                firstSupported(HookPrefs, supported, HookPrefs[Len(HookPrefs)])
          /\ selectMime(supported) =
                firstSupported(VoicePrefs, supported, VoicePrefs[Len(VoicePrefs)])

\* C22, amended: the negotiated format depends on the supported set only; it
\* is the first supported entry of the preference list, and a fixed default
\* when no entry is supported: 'audio/webm' in the hook, no type at all (the
\* platform's own choice) in the component.
C22_FirstSupportedElseDefault ==
    /\ uploader.mime # NoMime =>
          uploader.mime = firstSupported(HookPrefs, uploader.supported, Webm)
    /\ \A supported \in SupportedSets :
          /\ pickAudioMime(supported) = firstSupported(HookPrefs, supported, Webm)
          /\ selectMime(supported) = firstSupported(VoicePrefs, supported, <<>>)

\* C22: a start() of the hook has negotiated on a platform that supports no
\* entry of the list, and took the default
C22_Witness ==
    uploader.supported = {} /\ uploader.mime = Webm /\ uploader.streamRef # 0

\* C29: an object /api/uploadAudio wrote is owned by the identity the identity
\* provider gave for the request, and a request without identity writes nothing.
C29_OwnerIsIdentity ==
    LET lastReq == uploader.lastReq
    IN  lastReq.wrote => lastReq.session # Absent /\ lastReq.owner = lastReq.session

\* C30: at most one uploadChunk is suspended at its fetch(), and each chunk the
\* hook takes during a recording session gets a frame id above the one before.
C30_HookSerialized ==
    /\ [](BagCardinality(uploader.uploads) <= 1)
    /\ [][uploader'.emitted # uploader.emitted =>
             uploader'.lastId > uploader.lastId]_vars

HookTypeOK == BagCardinality(uploader.uploads) <= MaxEmit
====
